---- MODULE Spec2Model ----
(***************************************************************************)
(* Transaction layer of package database: DB.Transaction, the retry loop   *)
(* (transactionWithRetry / transactionRetry), isSerializationFailure and   *)
(* the single attempt DB.transaction with its two deferred calls.          *)
(*                                                                         *)
(* The repository holds two revisions of the package that differ in the    *)
(* transaction code: src/database.go and src/unnamed/part_000.  The        *)
(* variable build says which one is compiled; every action follows the     *)
(* code of that revision.                                                  *)
(*                                                                         *)
(* An error value is the sequence of its layers, outermost first: the      *)
(* fmt.Errorf("...: %w") wrappers, then the innermost error.  nil is <<>>. *)
(* A message is a sequence of tokens; strings.Contains(s, "40001") is the  *)
(* presence of the token "40001".                                          *)
(***************************************************************************)
EXTENDS Integers, Sequences, FiniteSets, TLC

VARIABLES
    build,   \* which revision of the package is compiled
    running, \* the callers that invoke Transaction
    inputs,  \* what the callers and the driver may pass in: levels, errors, ...
    db,      \* the pool-bound *DB returned by Open, shared by the callers
    pool,    \* sql.DB: connection id -> "idle" or the caller it is checked out for
    st,      \* caller -> the locals of its Transaction call
    obs      \* caller -> what an observer of the call has counted so far

vars == <<build, running, inputs, db, pool, st, obs>>

----------------------------------------------------------------------------
(* Bounds *)

\* connections the pool may open (SetMaxOpenConns, shrunk)
PoolSize == 2
\* how many fmt.Errorf layers the work function may put around an error
MaxWrapDepth == 2

Builds == {"database.go", "part_000"}
Callers == {"c1", "c2"}
Conns == 1..PoolSize

\* sql.IsolationLevel values, by their String()
Levels == {"Read Uncommitted", "Read Committed", "Repeatable Read", "Serializable"}

----------------------------------------------------------------------------
(* Errors *)

serializationFailureCode == "40001"
UniqueViolationCode == "23505"
Codes == {serializationFailureCode, UniqueViolationCode}

\* message texts a driver or a work function may produce
Messages == {<<"could not serialize access">>, <<"conflict ", "40001">>}

Nil == <<>>

Layer(t, code, msg) == [t |-> t, code |-> code, msg |-> msg]

\* &pq.Error{Code: code, Message: msg}
PqError(code, msg) == <<Layer("pq", code, msg)>>
\* &pgconn.PgError{Code: code, Message: msg}
PgError(code, msg) == <<Layer("pgconn", code, msg)>>
\* errors.New(msg), fmt.Errorf(msg) without %w
New(msg) == <<Layer("plain", "", msg)>>

\* fmt.Errorf(prefix + "%w", e): wraps e; with a nil operand the verb is
\* printed as %!w(<nil>) and nothing is wrapped.
Errorf(prefix, e) ==
    IF e = Nil THEN New(prefix \o <<"%!w(<nil>)">>)
    ELSE <<Layer("wrap", "", prefix)>> \o e

\* the text one layer contributes to Error()
LayerText(l) ==
    CASE l.t = "pq" -> <<"pq: ">> \o l.msg
      [] l.t = "pgconn" -> <<"ERROR: ">> \o l.msg \o <<" (SQLSTATE ", l.code, ")">>
      [] OTHER -> l.msg

RECURSIVE ErrorText(_)
\* err.Error()
ErrorText(e) ==
    IF e = Nil THEN <<>> ELSE LayerText(Head(e)) \o ErrorText(Tail(e))

\* strings.Contains(s, sub), on token sequences
Contains(s, sub) == \E k \in 1..Len(s) : s[k] = sub

NoLayer == Layer("none", "", <<>>)

RECURSIVE As(_, _)
\* errors.As(err, &target) for a target of type t: the first layer of that
\* type met while unwrapping, NoLayer when the chain ends without one.
As(e, t) ==
    IF e = Nil THEN NoLayer
    ELSE IF Head(e).t = t THEN Head(e)
    ELSE IF Head(e).t = "wrap" THEN As(Tail(e), t)
    ELSE NoLayer

isSerializationFailure_pqOnly(e) ==
    As(e, "pq").t = "pq" /\ As(e, "pq").code = serializationFailureCode

isSerializationFailure(e) ==
    \/ As(e, "pq").t = "pq" /\ As(e, "pq").code = serializationFailureCode
    \/ As(e, "pgconn").t = "pgconn" /\ As(e, "pgconn").code = serializationFailureCode

\* innermost errors the driver or the work function may return
LeafErrors ==
    {PqError(c, m) : c \in Codes, m \in Messages}
        \cup {PgError(c, m) : c \in Codes, m \in Messages}
        \cup {New(m) : m \in Messages}

RECURSIVE Wrapped(_)
\* leaf errors under exactly n layers of the work function's own wrapping
Wrapped(n) ==
    IF n = 0 THEN LeafErrors
    ELSE {Errorf(<<"work: ">>, e) : e \in Wrapped(n - 1)}

\* errors a work function may return
WorkErrors == UNION {Wrapped(n) : n \in 0..MaxWrapDepth}
\* errors Conn, BeginTx and Commit may return
DriverErrors == LeafErrors

\* values a work function may panic with
Faults == {"boom", "bang"}
NoFault == "none"

ErrNested == New(<<"There is already a transaction in progress">>)

----------------------------------------------------------------------------
(* Decisions of the code, one operator per condition or expression *)

maxRetries_four == 3 + 1

maxRetries == 3
\* 150 * time.Millisecond, in milliseconds
InitialBackoff == 150

canRetry_all(iso) == TRUE

canRetry(iso) == iso = "Repeatable Read" \/ iso = "Serializable"

AlreadyInTransaction_never(handle) == FALSE

\* db.tx != nil
AlreadyInTransaction(handle) == handle.tx.state # "none"

\* the connection database/sql hands out next: connections are
\* interchangeable, the pool gives the first free one of its slots
freeConn(p) ==
    {id \in DOMAIN p :
        p[id] = "idle" /\ \A j \in DOMAIN p : p[j] = "idle" => id <= j}

\* db.db.Conn(ctx) and db.db.BeginTx(ctx, ...) can return an error when ctx
\* can expire or when the pool has a free slot to open a connection on; with
\* the pool used up and a ctx without deadline the call waits
poolCallMayFail(ctx, p) == ctx = "deadline" \/ \E id \in DOMAIN p : p[id] = "idle"

\* whether BeginTx can return an error: database.go asks the pool, part_000
\* asks the connection it holds
beginMayFail(b, ctx, p) == b # "database.go" \/ poolCallMayFail(ctx, p)

pushDefer_fifo(defers, d) == defers \o <<d>>

\* defer d: deferred calls run last in, first out
pushDefer(defers, d) == <<d>> \o defers

\* where a returning or panicking transaction goes next: its next deferred
\* call, or out
Unwind(defers, fault) ==
    IF defers # <<>> THEN Head(defers)
    ELSE IF fault # "none" THEN "panicked" ELSE "returned"

receiverAfter_bound(recv, dbtx) == dbtx

\* the receiver after dbtx was built: lines 156-159 assign to dbtx only
receiverAfter(recv, dbtx) == recv

route_pool(handle, p) == freeConn(p)

\* exec / Query / QueryRow: the connections a statement issued through the
\* handle may run on: its transaction's, or else the pool's next free one
route(handle, p) ==
    IF handle.tx.state # "none" THEN {handle.tx.on} ELSE freeConn(p)

\* what the deferred closure prints when tx.Commit fails: log.Printf in
\* database.go, fmt.Println in part_000, both with the error's text
commitLog(b, txErr) == <<"tx.Commit(): ">> \o ErrorText(txErr)

\* what transaction returns when db.db.Conn fails
connErr(b, e) == IF b = "database.go" THEN Errorf(<<"db.Conn(): ">>, e) ELSE e

\* what transaction returns when BeginTx fails
beginErr(b, e) ==
    IF b = "database.go" THEN Errorf(<<"db.BeginTx(): ">>, e)
    ELSE Errorf(<<"conn.BeginTx(): ">>, e)

\* the connections the new transaction may run on: database.go begins on the
\* pool (db.db.BeginTx takes another connection), part_000 on conn itself
beginConns(b, p, conn) ==
    IF b = "database.go" THEN freeConn(p) ELSE {conn}

\* what transaction returns after f(dbtx) returned r
workRet(b, r) ==
    IF r = Nil THEN Nil
    ELSE IF b = "database.go" THEN Errorf(<<"call f(): ">>, r)
    ELSE Errorf(<<"call f(tx): ">>, r)

\* the err the deferred closure reads once transaction returns ret.
\* database.go: the result is unnamed, err is the local of the BeginTx line,
\* nil since BeginTx succeeded (the error of f lives in the if's own err).
\* part_000: err is the named result, which the return statement has set.
closureErr(b, ret) == IF b = "database.go" THEN Nil ELSE ret

repanic_swallowed(p) == NoFault

\* panic(p) in the deferred closure: the recovered value is raised again
repanic(p) == p

nextDur_same(dur) == dur

\* dur *= 2
nextDur(dur) == dur * 2

shouldRollback_never(fault, err) == FALSE

\* the deferred closure rolls back on a recovered panic or a non-nil err
shouldRollback(fault, err) == fault # NoFault \/ err # Nil

commitRet_wrapped(b, ret, err, txErr) == Errorf(<<"tx.Commit(): ">>, txErr)

\* what transaction returns when tx.Commit fails with txErr.
\* database.go logs txErr and keeps the return value; part_000 assigns
\* fmt.Errorf("tx.Commit(): %w", err) with err (nil on this branch), not txErr.
commitRet(b, ret, err, txErr) ==
    IF b = "database.go" THEN ret ELSE Errorf(<<"tx.Commit(): ">>, err)

\* the pool after tx ended (Commit or Rollback): a transaction begun on the
\* pool gives its connection back, one begun on conn leaves conn checked out
txRelease(p, tx, conn) ==
    IF tx.on # conn THEN [p EXCEPT ![tx.on] = "idle"] ELSE p

connClose_leak(p, id) == p

\* defer conn.Close()
connClose(p, id) == [p EXCEPT ![id] = "idle"]

\* the error of the retry loop once every pass was a serialization failure
exhaustedErr(b) ==
    IF b = "database.go" THEN New(<<"exceeded max retries">>)
    ELSE New(<<"transaction failed after ", ToString(maxRetries), " retries">>)

\* the retry loop's return for an attempt that is no structured
\* serialization failure
loopRet_asIs(b, ret) == ret

loopRet(b, ret) ==
    IF ret # Nil /\ Contains(ErrorText(ret), serializationFailureCode)
    THEN IF b = "database.go" THEN New(<<"serialization failure">>)
         ELSE Errorf(<<"serialization failure: ">>, ret)
    ELSE ret

\* Transaction's "Transaction(%s): %w" wrapping in part_000
txnErr(iso, e) == Errorf(<<"Transaction(", iso, "): ">>, e)

\* the result of a bare attempt
bareResult(b, iso, ret) ==
    IF b = "database.go" THEN ret
    ELSE IF ret # Nil THEN txnErr(iso, ret) ELSE Nil

----------------------------------------------------------------------------
(* State *)

NoTx == [on |-> 0, state |-> "none"]
NoHandle == [tx |-> NoTx, conn |-> 0, iso |-> "none"]

\* a transaction-bound handle, as a work function holds one
TxBound == [tx |-> [on |-> 1, state |-> "open"], conn |-> 1, iso |-> "Serializable"]

IdleLocals ==
    [pc |-> "idle", handle |-> "pool", iso |-> "none", ctx |-> "none",
     mode |-> "none",
     i |-> 0, dur |-> 0, conn |-> 0, tx |-> NoTx, dbtx |-> NoHandle,
     defers |-> <<>>,
     err |-> Nil, ret |-> Nil, fault |-> NoFault, result |-> Nil]

NoObs ==
    [attempts |-> 0, workLog |-> <<>>, workAt |-> <<>>, workErr |-> Nil,
     conns |-> 0, beginFailAt |-> <<>>,
     connFails |-> 0, begun |-> 0, beginFails |-> 0, beginError |-> Nil,
     commits |-> 0, commitFails |-> 0, rollbacks |-> 0,
     attCommits |-> 0, attRollbacks |-> 0, sleeps |-> <<>>, preIdle |-> 0,
     verdict |-> "none", judged |-> Nil, thrown |-> NoFault, loopLog |-> <<>>,
     closeSaw |-> "none", execOn |-> 0, execs |-> 0,
     commitError |-> Nil, printed |-> <<>>, okCommitFailAt |-> 0]

IdleCount(p) == Cardinality({id \in Conns : p[id] = "idle"})

\* how an observer files the outcome of one call of the work function
Outcome(r) ==
    IF r = Nil THEN "ok"
    ELSE IF r[Len(r)].t \in {"pq", "pgconn"} /\ r[Len(r)].code = "40001" THEN "ser"
    ELSE "err"

\* every level, error and fault of the model
FullInputs ==
    [levels |-> Levels, handles |-> {"pool", "tx"},
     ctxs |-> {"deadline", "background"},
     workErrs |-> WorkErrors, driverErrs |-> DriverErrors, faults |-> Faults]

\* a few of each, and no deadline on ctx
SmallInputs ==
    [levels |-> {"Read Committed", "Serializable"}, handles |-> {"pool", "tx"},
     ctxs |-> {"background"},
     workErrs |-> {PqError("40001", <<"could not serialize access">>)},
     driverErrs |-> {New(<<"could not serialize access">>)},
     faults |-> {"boom"}]

\* the receiver of caller c's Transaction call
Receiver(c) == IF st[c].handle = "pool" THEN db ELSE TxBound

Init ==
    /\ build \in Builds
    /\ running = {"c1"}
    /\ inputs = FullInputs
    /\ db = NoHandle
    /\ pool = [id \in Conns |-> "idle"]
    /\ st = [c \in Callers |-> IdleLocals]
    /\ obs = [c \in Callers |-> NoObs]

----------------------------------------------------------------------------
(* DB.Transaction *)

Transaction(c) ==
    /\ c \in running
    /\ st[c].pc = "idle"
    /\ \E iso \in inputs.levels, handle \in inputs.handles, ctx \in inputs.ctxs :
        st' = [st EXCEPT ![c] =
                [IdleLocals EXCEPT
                    !.pc = "transaction", !.handle = handle, !.iso = iso,
                    !.ctx = ctx,
                    !.mode = IF canRetry(iso) THEN "retry" ELSE "bare",
                    !.dur = InitialBackoff]]
    /\ obs' = [obs EXCEPT ![c] =
                 [NoObs EXCEPT
                    \* compared with the count after the call, which is only
                    \* meaningful when no other call runs meanwhile
                    !.preIdle = IF running = {c} THEN IdleCount(pool) ELSE 0]]
    /\ UNCHANGED <<build, running, inputs, db, pool>>

----------------------------------------------------------------------------
(* DB.transaction: one attempt *)

\* observer's bookkeeping at the start of an attempt
NewAttempt(o) ==
    [o EXCEPT !.attempts = @ + 1, !.attCommits = 0, !.attRollbacks = 0,
              !.workErr = Nil, !.beginError = Nil,
              !.verdict = "none", !.judged = Nil,
              !.closeSaw = "none", !.execOn = 0, !.execs = 0,
              !.commitError = Nil, !.printed = <<>>]

\* locals of a fresh call of transaction
EnterLocals(l) ==
    [l EXCEPT !.conn = 0, !.tx = NoTx, !.dbtx = NoHandle, !.err = Nil,
              !.ret = Nil, !.fault = NoFault, !.defers = <<>>]

Nested(c) ==
    /\ st[c].pc = "transaction"
    /\ AlreadyInTransaction(Receiver(c))
    /\ st' = [st EXCEPT ![c] =
                [EnterLocals(@) EXCEPT !.ret = ErrNested, !.pc = "returned"]]
    /\ obs' = [obs EXCEPT ![c] = NewAttempt(@)]
    /\ UNCHANGED <<build, running, inputs, db, pool>>

ConnOk(c) ==
    /\ st[c].pc = "transaction"
    /\ ~AlreadyInTransaction(Receiver(c))
    /\ \E id \in freeConn(pool) :
        /\ pool' = [pool EXCEPT ![id] = c]
        /\ st' = [st EXCEPT ![c] =
                    [EnterLocals(@) EXCEPT
                        !.conn = id,
                        !.defers = pushDefer(<<>>, "connClose"),
                        !.pc = "BeginTx"]]
    /\ obs' = [obs EXCEPT ![c] = [NewAttempt(@) EXCEPT !.conns = @ + 1]]
    /\ UNCHANGED <<build, running, inputs, db>>

ConnFail(c) ==
    /\ st[c].pc = "transaction"
    /\ ~AlreadyInTransaction(Receiver(c))
    /\ poolCallMayFail(st[c].ctx, pool)
    /\ \E e \in inputs.driverErrs :
        st' = [st EXCEPT ![c] =
                [EnterLocals(@) EXCEPT !.ret = connErr(build, e),
                                       !.pc = "returned"]]
    /\ obs' = [obs EXCEPT ![c] = [NewAttempt(@) EXCEPT !.connFails = @ + 1]]
    /\ UNCHANGED <<build, running, inputs, db, pool>>

\* dbtx := &DB{db: db.db}; dbtx.tx = tx; dbtx.conn = conn; dbtx.txOptions = *opts
NewHandle(l) == [tx |-> l.tx, conn |-> l.conn, iso |-> l.iso]

BeginOk(c) ==
    /\ st[c].pc = "BeginTx"
    /\ \E id \in beginConns(build, pool, st[c].conn) :
        /\ pool' = [pool EXCEPT ![id] = c]
        /\ LET tx == [on |-> id, state |-> "open"]
               dbtx == NewHandle([st[c] EXCEPT !.tx = tx]) IN
            /\ st' = [st EXCEPT ![c].tx = tx,
                                ![c].defers = pushDefer(@, "deferred"),
                                ![c].dbtx = dbtx,
                                ![c].pc = "work"]
            /\ db' = IF st[c].handle = "pool" THEN receiverAfter(db, dbtx)
                     ELSE db
    /\ obs' = [obs EXCEPT ![c].begun = @ + 1]
    /\ UNCHANGED <<build, running, inputs>>

BeginFail(c) ==
    /\ st[c].pc = "BeginTx"
    /\ beginMayFail(build, st[c].ctx, pool)
    /\ \E e \in inputs.driverErrs :
        /\ st' = [st EXCEPT ![c].ret = beginErr(build, e),
                            ![c].pc = Unwind(st[c].defers, NoFault)]
        /\ obs' = [obs EXCEPT ![c].beginFails = @ + 1, ![c].beginError = e,
                              ![c].beginFailAt = Append(@, obs[c].attempts)]
    /\ UNCHANGED <<build, running, inputs, db, pool>>

\* the work function issues a statement through dbtx (exec, Query, QueryRow)
Exec(c) ==
    /\ st[c].pc = "work"
    /\ obs[c].execs = 0
    /\ \E id \in route(st[c].dbtx, pool) :
        obs' = [obs EXCEPT ![c].execOn = id, ![c].execs = 1]
    /\ UNCHANGED <<build, running, inputs, db, pool, st>>

WorkReturn(c) ==
    /\ st[c].pc = "work"
    /\ \E r \in {Nil} \cup inputs.workErrs :
        /\ st' = [st EXCEPT ![c].ret = workRet(build, r),
                            ![c].err = closureErr(build, workRet(build, r)),
                            ![c].pc = Unwind(st[c].defers, NoFault)]
        /\ obs' = [obs EXCEPT ![c].workLog = Append(@, Outcome(r)),
                              ![c].workAt = Append(@, obs[c].attempts),
                              ![c].execOn = 0, ![c].execs = 0,
                              ![c].workErr = r]
    /\ UNCHANGED <<build, running, inputs, db, pool>>

WorkPanic(c) ==
    /\ st[c].pc = "work"
    /\ \E p \in inputs.faults :
        st' = [st EXCEPT ![c].fault = p,
                         ![c].pc = Unwind(st[c].defers, p)]
    /\ obs' = [obs EXCEPT ![c].workLog = Append(@, "panic"),
                          ![c].workAt = Append(@, obs[c].attempts),
                          ![c].execOn = 0, ![c].execs = 0,
                          ![c].thrown = st'[c].fault]
    /\ UNCHANGED <<build, running, inputs, db, pool>>

\* the deferred closure: tx.Rollback(), and panic(p) again after a recover
Rollback(c) ==
    /\ st[c].pc = "deferred"
    /\ shouldRollback(st[c].fault, st[c].err)
    /\ LET fault == IF st[c].fault # NoFault THEN repanic(st[c].fault)
                    ELSE NoFault IN
        st' = [st EXCEPT ![c].tx.state = "rolledback",
                         ![c].fault = fault,
                         ![c].defers = Tail(@),
                         ![c].pc = Unwind(Tail(st[c].defers), fault)]
    /\ pool' = txRelease(pool, st[c].tx, st[c].conn)
    /\ obs' = [obs EXCEPT ![c].rollbacks = @ + 1, ![c].attRollbacks = @ + 1]
    /\ UNCHANGED <<build, running, inputs, db>>

\* the deferred closure: tx.Commit() returns nil
CommitOk(c) ==
    /\ st[c].pc = "deferred"
    /\ ~shouldRollback(st[c].fault, st[c].err)
    /\ st' = [st EXCEPT ![c].tx.state = "committed",
                        ![c].defers = Tail(@),
                        ![c].pc = Unwind(Tail(st[c].defers), NoFault)]
    /\ pool' = txRelease(pool, st[c].tx, st[c].conn)
    /\ obs' = [obs EXCEPT ![c].commits = @ + 1, ![c].attCommits = @ + 1]
    /\ UNCHANGED <<build, running, inputs, db>>

\* the deferred closure: tx.Commit() returns an error
CommitFail(c) ==
    /\ st[c].pc = "deferred"
    /\ ~shouldRollback(st[c].fault, st[c].err)
    /\ \E txErr \in inputs.driverErrs :
        /\ st' = [st EXCEPT ![c].tx.state = "commitFailed",
                            ![c].ret = commitRet(build, st[c].ret, st[c].err, txErr),
                            ![c].defers = Tail(@),
                            ![c].pc = Unwind(Tail(st[c].defers), NoFault)]
        /\ obs' = [obs EXCEPT ![c].commitFails = @ + 1, ![c].attCommits = @ + 1,
                              ![c].commitError = txErr,
                              ![c].printed = commitLog(build, txErr),
                              ![c].okCommitFailAt =
                                  IF @ = 0 /\ obs[c].workLog[Len(obs[c].workLog)] = "ok"
                                  THEN obs[c].attempts ELSE @]
    /\ pool' = txRelease(pool, st[c].tx, st[c].conn)
    /\ UNCHANGED <<build, running, inputs, db>>

\* defer conn.Close(); then transaction returns, or the panic goes on
Close(c) ==
    /\ st[c].pc = "connClose"
    /\ pool' = connClose(pool, st[c].conn)
    /\ st' = [st EXCEPT ![c].conn = 0,
                        ![c].defers = Tail(@),
                        ![c].pc = Unwind(Tail(st[c].defers), st[c].fault)]
    /\ obs' = [obs EXCEPT ![c].closeSaw = st[c].tx.state]
    /\ UNCHANGED <<build, running, inputs, db>>

----------------------------------------------------------------------------
(* transactionWithRetry / transactionRetry, and Transaction's return *)

\* transaction's locals after it returned: dbtx is out of scope, and tx is a
\* finished transaction that is on no connection
ExitLocals(l) == [l EXCEPT !.dbtx = NoHandle, !.tx.on = 0]

\* Transaction returning what the retry loop returned (e): database.go returns
\* it; part_000 returns it wrapped when non-nil and otherwise goes on to the
\* db.transaction call that follows the if
AfterLoop(c, l, e) ==
    IF build = "database.go" THEN [l EXCEPT !.result = e, !.pc = "done"]
    ELSE IF e # Nil THEN [l EXCEPT !.result = txnErr(l.iso, e), !.pc = "done"]
    ELSE [l EXCEPT !.mode = "bare", !.pc = "transaction"]

\* the loop body on a serialization failure: sleep, double, next pass or
\* the end of the loop
RetrySleep(c) ==
    /\ st[c].pc = "returned"
    /\ st[c].mode = "retry"
    /\ isSerializationFailure(st[c].ret)
    /\ LET l == [ExitLocals(st[c]) EXCEPT
                    !.dur = nextDur(@), !.i = @ + 1, !.ret = Nil] IN
        st' = [st EXCEPT ![c] =
                IF l.i < maxRetries THEN [l EXCEPT !.pc = "transaction"]
                ELSE AfterLoop(c, l, exhaustedErr(build))]
    /\ obs' = [obs EXCEPT ![c].sleeps = Append(@, st[c].dur),
                          ![c].loopLog = Append(@, Outcome(st[c].ret)),
                          ![c].verdict = "retry",
                          ![c].judged = st[c].ret]
    /\ UNCHANGED <<build, running, inputs, db, pool>>

\* the loop body otherwise: return err, relabelled when its text has the code
RetryReturn(c) ==
    /\ st[c].pc = "returned"
    /\ st[c].mode = "retry"
    /\ ~isSerializationFailure(st[c].ret)
    /\ st' = [st EXCEPT ![c] =
                AfterLoop(c, ExitLocals(@), loopRet(build, st[c].ret))]
    /\ obs' = [obs EXCEPT ![c].verdict = "return", ![c].judged = st[c].ret,
                          ![c].loopLog = Append(@, Outcome(st[c].ret))]
    /\ UNCHANGED <<build, running, inputs, db, pool>>

\* Transaction after the bare db.transaction call
BareReturn(c) ==
    /\ st[c].pc = "returned"
    /\ st[c].mode = "bare"
    /\ st' = [st EXCEPT ![c] =
                [ExitLocals(@) EXCEPT
                    !.result = bareResult(build, st[c].iso, st[c].ret),
                    !.pc = "done"]]
    /\ UNCHANGED <<build, running, inputs, db, pool, obs>>

\* the caller goes on after the call returned or its panic was recovered
Reset(c) ==
    /\ st[c].pc \in {"done", "panicked"}
    /\ st' = [st EXCEPT ![c] = IdleLocals]
    /\ obs' = [obs EXCEPT ![c] = NoObs]
    /\ UNCHANGED <<build, running, inputs, db, pool>>

Next ==
    \E c \in Callers :
        \/ Transaction(c)
        \/ Nested(c)
        \/ ConnOk(c)
        \/ ConnFail(c)
        \/ BeginOk(c)
        \/ BeginFail(c)
        \/ Exec(c)
        \/ WorkReturn(c)
        \/ WorkPanic(c)
        \/ Rollback(c)
        \/ CommitOk(c)
        \/ CommitFail(c)
        \/ Close(c)
        \/ RetrySleep(c)
        \/ RetryReturn(c)
        \/ BareReturn(c)
        \/ Reset(c)

Spec == Init /\ [][Next]_vars

\* several callers invoke Transaction concurrently on the handle Open returned
InitPool ==
    /\ build \in Builds
    /\ running = Callers
    /\ inputs = SmallInputs
    /\ db = NoHandle
    /\ pool = [id \in Conns |-> "idle"]
    /\ st = [c \in Callers |-> IdleLocals]
    /\ obs = [c \in Callers |-> NoObs]

SpecPool == InitPool /\ [][Next]_vars

----------------------------------------------------------------------------
(* Properties *)

RetryLevels == {"Repeatable Read", "Serializable"}

Done(c) == st[c].pc = "done"
Exited(c) == st[c].pc \in {"done", "panicked"}

\* the innermost error of a non-nil error value
Leaf(e) == e[Len(e)]

\* e is, or wraps at some depth, the error w
Wraps(e, w) ==
    /\ w # Nil
    /\ Len(e) >= Len(w)
    /\ SubSeq(e, Len(e) - Len(w) + 1, Len(e)) = w

\* e is, or wraps, a pq.Error or pgconn.PgError with code 40001
Structured40001(e) ==
    /\ e # Nil
    /\ Leaf(e).t \in {"pq", "pgconn"}
    /\ Leaf(e).code = "40001"

\* the first n calls of the work function: n-1 serialization failures, then success
FailsThenSucceeds(c, n) ==
    /\ Len(obs[c].workLog) >= n
    /\ \A k \in 1..(n - 1) : obs[c].workLog[k] = "ser"
    /\ obs[c].workLog[n] = "ok"

DriverHealthy(c) ==
    obs[c].connFails = 0 /\ obs[c].beginFails = 0 /\ obs[c].commitFails = 0

\* C1: at repeatable-read and serializable, when the work function fails with
\* a structured serialization failure on its first N-1 calls and succeeds on
\* call N (N in 1..3, begin and commit succeeding), Transaction returns nil
\* and the work function has run exactly N times.
C1_RetriesUntilSuccess ==
    \A c \in Callers : \A n \in 1..3 :
        (/\ Done(c)
         /\ st[c].iso \in RetryLevels
         /\ DriverHealthy(c)
         /\ FailsThenSucceeds(c, n))
        => (st[c].result = Nil /\ Len(obs[c].workLog) = n)

\* C2: at every isolation level, when the work function returns an error that
\* is no serialization failure, there is exactly one attempt, its transaction
\* is rolled back exactly once and never committed, nothing is retried, and
\* the returned error wraps the work function's error.
C2_WorkErrorRollsBack ==
    \A c \in Callers :
        (/\ Len(obs[c].workLog) >= 1
         /\ obs[c].workAt[1] = 1
         /\ obs[c].workLog[1] = "err")
        => /\ obs[c].attempts = 1
           /\ obs[c].sleeps = <<>>
           /\ obs[c].attCommits = 0
           /\ st[c].pc \in {"connClose", "returned", "done"} => obs[c].attRollbacks = 1
           /\ Done(c) => Wraps(st[c].result, obs[c].workErr)

\* C3: at every isolation level, when the work function succeeds on its first
\* call and commit succeeds, the run commits exactly once, rolls back never,
\* and runs the work function exactly once.
C3_SuccessCommitsOnce ==
    \A c \in Callers :
        (/\ Done(c)
         /\ Len(obs[c].workLog) >= 1
         /\ obs[c].workAt[1] = 1
         /\ obs[c].workLog[1] = "ok"
         /\ obs[c].commitFails = 0)
        => /\ obs[c].commits = 1
           /\ obs[c].rollbacks = 0
           /\ Len(obs[c].workLog) = 1

\* the retry loop's own error for a used-up budget
IsExhausted(e) ==
    /\ e # Nil
    /\ Leaf(e).t = "plain"
    /\ Leaf(e).msg[1] \in {"exceeded max retries", "transaction failed after "}

\* every attempt so far ran the work function, which reported a structured
\* serialization failure each time
AlwaysSerializationFailure(c) ==
    /\ obs[c].attempts >= 1
    /\ Len(obs[c].workLog) = obs[c].attempts
    /\ \A k \in 1..Len(obs[c].workLog) : obs[c].workLog[k] = "ser"

\* C4: at repeatable-read and serializable, when every attempt of the work
\* function reports a structured serialization failure, Transaction runs the
\* work function exactly 3 times and returns the retries-exhausted error,
\* which neither is nor wraps the serialization error.
C4_ExhaustsAfterThree ==
    \A c \in Callers :
        (st[c].iso \in RetryLevels /\ AlwaysSerializationFailure(c))
        => /\ Len(obs[c].workLog) <= 3
           /\ Done(c) =>
                /\ Len(obs[c].workLog) = 3
                /\ IsExhausted(st[c].result)
                /\ ~Structured40001(st[c].result)
                /\ \A k \in 1..Len(st[c].result) :
                      st[c].result[k].t \notin {"pq", "pgconn"}

C4_Witness ==
    \E c \in Callers :
        /\ Done(c)
        /\ st[c].iso = "Serializable"
        /\ AlwaysSerializationFailure(c)
        /\ obs[c].workLog = <<"ser", "ser", "ser">>
        /\ IsExhausted(st[c].result)

\* C5: at every isolation level other than repeatable-read and serializable
\* Transaction makes at most one attempt and never sleeps, whatever the work
\* function returns; more than one attempt happens only at those two levels.
C5_NoRetryBelowRepeatableRead ==
    \A c \in Callers :
        /\ (st[c].pc # "idle" /\ st[c].iso \notin RetryLevels)
            => (obs[c].attempts <= 1 /\ obs[c].sleeps = <<>>)
        /\ obs[c].attempts > 1 => st[c].iso \in RetryLevels

C5_Witness ==
    \E c \in Callers :
        /\ Done(c)
        /\ st[c].iso = "Read Committed"
        /\ obs[c].workLog = <<"ser">>
        /\ obs[c].attempts = 1
        /\ obs[c].sleeps = <<>>
        /\ Structured40001(st[c].result)

\* C6: Transaction on a handle that already has a transaction returns the
\* nesting error at every isolation level, without calling the work function,
\* acquiring a connection, beginning a transaction or retrying.
C6_NestedRejected ==
    \A c \in Callers :
        (st[c].pc # "idle" /\ st[c].handle = "tx")
        => /\ st[c].pc \in {"transaction", "returned", "done"}
           /\ obs[c].workLog = <<>>
           /\ obs[c].conns = 0 /\ obs[c].connFails = 0
           /\ obs[c].begun = 0 /\ obs[c].beginFails = 0
           /\ st[c].conn = 0 /\ st[c].tx = NoTx
           /\ \A id \in Conns : pool[id] # c
           /\ obs[c].attempts <= 1
           /\ obs[c].sleeps = <<>>
           /\ Done(c) => Wraps(st[c].result, ErrNested)

C6_Witness ==
    \E c \in Callers :
        /\ Done(c)
        /\ st[c].handle = "tx"
        /\ st[c].iso = "Serializable"
        /\ obs[c].attempts = 1
        /\ Wraps(st[c].result, ErrNested)

\* C7: on every exit of Transaction (nil, an error, or a panic leaving it)
\* every connection checked out for the call is back in the pool: the number
\* of idle connections equals its value before the call.
C7_ConnectionsReleased ==
    \A c \in Callers :
        Exited(c)
        => /\ \A id \in Conns : pool[id] # c
           /\ running = {c} => IdleCount(pool) = obs[c].preIdle

C7_Witness ==
    \E c \in Callers :
        /\ st[c].pc = "panicked"
        /\ obs[c].attempts = 2
        /\ obs[c].begun = 2
        /\ IdleCount(pool) = obs[c].preIdle

\* C8: when the work function panics, the attempt's transaction is rolled
\* back exactly once and never committed, the same value is raised again out
\* of Transaction, which returns nothing, and no further attempt is made.
C8_PanicRollsBackAndRethrows ==
    \A c \in Callers :
        (Len(obs[c].workLog) >= 1 /\ obs[c].workLog[Len(obs[c].workLog)] = "panic")
        => /\ st[c].pc \in {"deferred", "connClose", "panicked"}
           /\ obs[c].attCommits = 0
           /\ st[c].fault = obs[c].thrown
           /\ st[c].fault \in Faults
           /\ st[c].result = Nil
           /\ Len(obs[c].workLog) <= obs[c].attempts
           /\ st[c].pc # "deferred" =>
                (obs[c].attRollbacks = 1 /\ st[c].tx.state = "rolledback")

C8_Witness ==
    \E c \in Callers :
        /\ st[c].pc = "panicked"
        /\ st[c].fault = "bang"
        /\ obs[c].workLog = <<"ser", "panic">>
        /\ obs[c].attRollbacks = 1

\* C9: when BeginTx fails, whatever the error (one with SQLSTATE 40001
\* included), the work function is never called, nothing is committed or
\* rolled back, no further attempt is made, and the returned error wraps the
\* begin failure.
C9_BeginFailureFinal ==
    \A c \in Callers :
        (obs[c].beginFails >= 1 /\ obs[c].beginFailAt[1] = 1)
        => /\ obs[c].attempts = 1
           /\ obs[c].workLog = <<>>
           /\ obs[c].commits = 0 /\ obs[c].commitFails = 0
           /\ obs[c].rollbacks = 0
           /\ Done(c) => Wraps(st[c].result, obs[c].beginError)

\* C10: isSerializationFailure is true exactly of the errors that are, or
\* wrap at any depth, a pq.Error or a pgconn.PgError with code 40001; it is
\* false of nil, of either shape with another code and of unstructured errors,
\* those whose text contains 40001 included.
C10_Classification ==
    \A c \in Callers :
        obs[c].verdict # "none"
        => ((obs[c].verdict = "retry") <=> Structured40001(obs[c].judged))

C10_Witness ==
    \E c \in Callers :
        /\ obs[c].verdict = "retry"
        /\ Len(obs[c].judged) = MaxWrapDepth + 2
        /\ Leaf(obs[c].judged).t = "pgconn"

\* a run that met an unstructured error whose text contains 40001 and did
\* not retry it
C10_WitnessUnstructured ==
    \E c \in Callers :
        /\ obs[c].verdict = "return"
        /\ obs[c].judged # Nil
        /\ Leaf(obs[c].judged).t = "plain"
        /\ Contains(ErrorText(obs[c].judged), "40001")

\* 2^n
RECURSIVE Pow2(_)
Pow2(n) == IF n = 0 THEN 1 ELSE 2 * Pow2(n - 1)

RECURSIVE SumSeq(_)
SumSeq(q) == IF q = <<>> THEN 0 ELSE Head(q) + SumSeq(Tail(q))

\* how many passes of the retry loop ended in a structured serialization failure
SerPasses(c) ==
    Cardinality({k \in 1..Len(obs[c].loopLog) : obs[c].loopLog[k] = "ser"})

C12_SuccessMeansOneCommit ==
    \A c \in Callers :
        (Done(c) /\ st[c].result = Nil)
        => /\ obs[c].commits = 1
           /\ st[c].tx.state = "committed"

\* C13: whenever Transaction returns a non-nil error, no attempt of the run
\* had its transaction committed.
C13_FailureMeansNoCommit ==
    \A c \in Callers :
        (Done(c) /\ st[c].result # Nil) => obs[c].commits = 0

\* the connections checked out of the pool for caller c
Held(c) == {id \in Conns : pool[id] = c}

\* C14: an attempt checks exactly one connection out of the pool and begins
\* its transaction on that connection; it never holds more than one, and the
\* handle passed to the work function carries a transaction running on the
\* handle's own connection.
C14_OneConnectionPerAttempt ==
    \A c \in Callers :
        /\ Cardinality(Held(c)) <= 1
        /\ st[c].tx.state = "open" => st[c].tx.on = st[c].conn
        /\ st[c].dbtx # NoHandle => st[c].dbtx.tx.on = st[c].dbtx.conn

\* a caller that holds a connection and waits in db.BeginTx for one more
WaitsHolding(c) ==
    /\ st[c].pc = "BeginTx"
    /\ st[c].conn # 0
    /\ pool[st[c].conn] = c
    /\ ~ENABLED (BeginOk(c) \/ BeginFail(c))

\* C15: with a context that never expires, concurrent callers never reach a
\* state in which every one of them waits for a pool connection while it
\* already holds one.
C15_NoPoolDeadlock ==
    ~(\A c \in running : st[c].ctx = "background" /\ WaitsHolding(c))

\* the attempt of caller c began a transaction that has ended
Decided(c) == st[c].tx.state \in {"committed", "commitFailed", "rolledback"}

\* C16: in every attempt that began a transaction exactly one of commit and
\* rollback is invoked on it, once, whether work succeeded, failed or
\* panicked; the attempt's connection is still checked out while the
\* transaction is open, is closed only after that call, and is never left
\* checked out.
C16_OneDecisionThenRelease ==
    \A c \in Callers :
        /\ obs[c].attCommits + obs[c].attRollbacks <= 1
        /\ st[c].tx.state = "open"
           => /\ obs[c].attCommits + obs[c].attRollbacks = 0
              /\ st[c].conn # 0
              /\ pool[st[c].conn] = c
        /\ Decided(c) => obs[c].attCommits + obs[c].attRollbacks = 1
        /\ obs[c].closeSaw # "open"
        /\ st[c].pc \in {"returned", "panicked", "done"}
           => /\ st[c].tx.state # "open"
              /\ \A id \in Conns : pool[id] # c

C16_Witness ==
    \E c \in Callers :
        /\ st[c].pc = "panicked"
        /\ obs[c].workLog = <<"ser", "panic">>
        /\ st[c].tx.state = "rolledback"
        /\ obs[c].closeSaw = "rolledback"
        /\ obs[c].attRollbacks = 1
        /\ obs[c].attCommits = 0

\* C17: when work succeeded and tx.Commit failed, the failure is printed with
\* its error, and no further attempt and no retry follows, at any level and
\* whatever the commit error is.
C17_CommitFailureFinal ==
    \A c \in Callers :
        obs[c].okCommitFailAt # 0
        => /\ obs[c].attempts = obs[c].okCommitFailAt
           /\ obs[c].verdict # "retry"
           /\ obs[c].commitError # Nil
           /\ obs[c].printed = <<"tx.Commit(): ">> \o ErrorText(obs[c].commitError)

C17_Witness ==
    \E c \in Callers :
        /\ Done(c)
        /\ st[c].iso = "Serializable"
        /\ obs[c].workLog = <<"ok">>
        /\ obs[c].okCommitFailAt = 1
        /\ Structured40001(obs[c].commitError)
        /\ obs[c].attempts = 1
        /\ obs[c].sleeps = <<>>

\* errors.As finds neither a pq.Error nor a pgconn.PgError in e
Unstructured(e) == As(e, "pq") = NoLayer /\ As(e, "pgconn") = NoLayer

\* some layer of e was made with the words "serialization failure"
SaysSerializationFailure(e) ==
    \E k \in 1..Len(e) :
        e[k].msg[1] \in {"serialization failure", "serialization failure: "}

\* caller c's Transaction, at a retry-eligible level, has returned from a pass
\* of the retry loop whose attempt failed with an unstructured error
UnstructuredReturn(c) ==
    /\ Done(c)
    /\ st[c].iso \in RetryLevels
    /\ obs[c].verdict = "return"
    /\ obs[c].judged # Nil
    /\ Unstructured(obs[c].judged)

\* the pass that returned was the last attempt and slept no backoff
NoRetryNoSleep(c) ==
    /\ obs[c].attempts = Len(obs[c].loopLog)
    /\ Len(obs[c].sleeps) = Len(obs[c].loopLog) - 1

Owned(c) ==
    {id \in Conns : id = st[c].conn}
        \cup {id \in Conns : st[c].tx.state = "open" /\ id = st[c].tx.on}

\* C19: with concurrent callers every checked-out connection and every open
\* transaction belongs to exactly one attempt: no two attempts use the same
\* connection, and a statement issued through an attempt's handle runs on
\* that attempt's own open transaction.
C19_ExclusiveOwnership ==
    \A c \in Callers :
        /\ \A id \in Owned(c) : pool[id] = c
        /\ \A d \in Callers \ {c} : Owned(c) \cap Owned(d) = {}
        /\ obs[c].execs > 0
           => /\ st[c].tx.state = "open"
              /\ obs[c].execOn = st[c].tx.on
              /\ pool[obs[c].execOn] = c
              /\ \A d \in Callers \ {c} : obs[c].execOn \notin Owned(d)

C19_Witness ==
    \E c \in Callers, d \in Callers :
        /\ c # d
        /\ st[c].pc = "work" /\ obs[c].execs = 1
        /\ st[d].pc = "work" /\ obs[d].execs = 1
        /\ obs[c].execOn # obs[d].execOn

\* C20: Transaction never changes its receiver: the pool-bound handle has no
\* transaction, no connection and its options unchanged in every state, and
\* no call on it, sequential or concurrent, is rejected with the nesting
\* error.
C20_ReceiverUntouched ==
    /\ db = NoHandle
    /\ \A c \in Callers :
        st[c].handle = "pool"
        => /\ st[c].ret # ErrNested
           /\ ~Wraps(st[c].result, ErrNested)

C20_Witness ==
    \E c \in Callers, d \in Callers :
        /\ c # d
        /\ st[c].handle = "pool" /\ st[d].handle = "pool"
        /\ st[c].pc = "work" /\ obs[c].begun = 2
        /\ st[d].pc = "work"
        /\ db = NoHandle

====
